---- MODULE Spec2Model ----
(***************************************************************************)
(* Model of the price-cache-and-valuation pipeline of the portfolio        *)
(* tracker: src/app/api/portfolio/route.ts (getAssetData,                  *)
(* getExchangeRateData, GET) and src/app/api/admin/refresh/route.ts (POST).*)
(*                                                                         *)
(* Time is a count of clock ticks; oneDay ticks make a UTC day.  A Date is *)
(* a tick, a "YYYY-MM-DD" string is a day number.  Every await of the code *)
(* is one step of a task, so concurrent requests interleave between awaits.*)
(***************************************************************************)
EXTENDS Integers, Sequences, FiniteSets, TLC

(* ------------------------------ bounds --------------------------------- *)
\* Days run 0..MaxDay.
MaxDay == 1
\* Refresh calls the sequential driver issues.
MaxCalls == 3
\* Quotes in one provider answer.
MaxQuotes == 1
\* The process's local time zone is UTC + TzOffset ticks.
TzOffset == 1

(* --------------------------- program constants -------------------------- *)
\* route.ts:348 oneDay = 24*60*60*1000 ms, scaled to two ticks a day.
oneDay == 2
\* route.ts:7 queue: { concurrency: 1 }
concurrency == 1

\* null / undefined / no row
Null == -1
MaxNow == (MaxDay + 1) * oneDay - 1
Days == 0..MaxDay
CloseVals == {1, 2}

(* ------------------------------ dates ----------------------------------- *)
\* d.toISOString().split('T')[0]: the UTC calendar day of an instant.
IsoDay(ts) == ts \div oneDay
\* new Date("YYYY-MM-DD"): UTC midnight of the day.
DateOf(day) == day * oneDay
\* d.toDateString(): the calendar day in the process's local time zone.
toDateString(ts) == (ts + TzOffset) \div oneDay

(* --------------------------- Price Store -------------------------------- *)
VARIABLES
    now,            \* the clock (new Date())
    assetPrice,     \* table AssetPrice: a set of rows
    exchangeRate,   \* table ExchangeRate: a set of rows
    syncRegistry,   \* table SyncRegistry: key -> lastCheck, Null when no row
    tasks,          \* task id -> the locals and position of a running refresh
    queue,          \* gateway calls waiting for the slot, FIFO
    inflight,       \* gateway calls the provider is serving
    ncalls,         \* refresh calls the sequential driver has issued
    gw,             \* per sync key, today's gateway calls (history)
    requests,       \* GET /api/portfolio: request -> its position and locals
    val             \* a valuation computed from given results (Section 5 and 6 of GET)

vars == <<now, assetPrice, exchangeRate, syncRegistry, tasks, queue, inflight, ncalls, gw,
          requests, val>>

Tickers == {"AAA", "BBB"}
Pairs == {"USDEUR=X"}
\* The symbols the sequential driver refreshes.
SeqTickers == {"AAA"}

\* `asset_${ticker}` and `rate_${pair}`
AssetKey(ticker) == <<"asset", ticker>>
RateKey(pair) == <<"rate", pair>>
SyncKeys == {AssetKey(t) : t \in Tickers} \cup {RateKey(p) : p \in Pairs}

\* The unique key of an AssetPrice row and of an ExchangeRate row.
AssetPriceKey(r) == <<r.ticker, r.date>>
ExchangeRateKey(r) == <<r.pair, r.date>>

\* orderBy: { date: 'asc' }
RECURSIVE SortByDate(_)
SortByDate(S) ==
    IF S = {} THEN <<>>
    ELSE LET r == CHOOSE x \in S : \A y \in S : x.date <= y.date
         IN  <<r>> \o SortByDate(S \ {r})

\* prisma.assetPrice.findMany({ where: { ticker, date: { gte } }, orderBy date asc })
FindManyAsset(rows, ticker, period1Date) ==
    SortByDate({r \in rows : r.ticker = ticker /\ r.date >= period1Date})

\* prisma.exchangeRate.findMany({ where: { pair, date: { gte } }, orderBy date asc })
FindManyRate(rows, pair, period1Date) ==
    SortByDate({r \in rows : r.pair = pair /\ r.date >= period1Date})

\* x || 0
OrZero(x) == IF x = Null THEN 0 ELSE x

\* quotes.filter(q => q.date && q.close !== null)
ValidQuote(q) == q.date # Null /\ q.close # Null
validQuotes(quotes) == SelectSeq(quotes, ValidQuote)

\* One element of dataToInsert of getAssetData.
AssetRow(ticker, q, currency, at) ==
    [ticker |-> ticker, date |-> q.date,
     open |-> OrZero(q.open), high |-> OrZero(q.high), low |-> OrZero(q.low),
     close |-> OrZero(q.close), volume |-> OrZero(q.volume),
     adjClose |-> IF OrZero(q.adjclose) # 0 THEN q.adjclose ELSE OrZero(q.close),
     currency |-> currency, updatedAt |-> at]

\* One element of dataToInsert of getExchangeRateData.
RateRow(pair, q) == [pair |-> pair, date |-> q.date, rate |-> OrZero(q.close)]

\* The element getAssetData returns for a stored row.
Bar(d) ==
    [date |-> d.date, open |-> d.open, high |-> d.high, low |-> d.low,
     close |-> d.close, adjClose |-> d.adjClose, volume |-> d.volume]

\* dbData.map(d => ({ date, open, high, low, close, adjClose, volume }))
MapBars(s) == [i \in 1..Len(s) |-> Bar(s[i])]

\* prisma.assetPrice.createMany({ data, skipDuplicates: true }): a row whose key
\* is stored, or was inserted earlier in the same batch, is skipped.
RECURSIVE CreateManyAssetSkip(_, _)
CreateManyAssetSkip(rows, data) ==
    IF data = <<>> THEN rows
    ELSE LET d == Head(data)
         IN  CreateManyAssetSkip(
                 IF \E r \in rows : AssetPriceKey(r) = AssetPriceKey(d)
                 THEN rows ELSE rows \cup {d},
                 Tail(data))

\* prisma.exchangeRate.createMany({ data, skipDuplicates: true })
RECURSIVE CreateManyRateSkip(_, _)
CreateManyRateSkip(rows, data) ==
    IF data = <<>> THEN rows
    ELSE LET d == Head(data)
         IN  CreateManyRateSkip(
                 IF \E r \in rows : ExchangeRateKey(r) = ExchangeRateKey(d)
                 THEN rows ELSE rows \cup {d},
                 Tail(data))

\* A createMany that stores every row of the batch.
CreateAssetNoSkip(rows, data) == rows \cup {data[i] : i \in 1..Len(data)}
CreateManyAsset(rows, data) == CreateManyAssetSkip(rows, data)

CreateRateNoSkip(rows, data) == rows \cup {data[i] : i \in 1..Len(data)}
CreateManyRate(rows, data) == CreateManyRateSkip(rows, data)

\* isSyncedToday = sync && (new Date().toDateString() === new Date(sync.lastCheck).toDateString())
SyncedUtcDay(lastCheck, at) == lastCheck # Null /\ IsoDay(at) = IsoDay(lastCheck)
isSyncedToday(lastCheck, at) ==
    lastCheck # Null /\ toDateString(at) = toDateString(lastCheck)

\* if (dbData.length > 0 && isSyncedToday) return dbData...
HitIfSynced(dbData, synced) == synced
HitIfData(dbData, synced) == Len(dbData) > 0
CacheHit(dbData, synced) == Len(dbData) > 0 /\ synced

\* let fetchStart = period1Str; if (dbData.length > 0) fetchStart = <day of the last row>
FetchStartFull(dbData, period1Str) == period1Str
FetchStartFirst(dbData, period1Str) ==
    IF Len(dbData) > 0 THEN IsoDay(dbData[1].date) ELSE period1Str
fetchStart(dbData, period1Str) ==
    IF Len(dbData) > 0 THEN IsoDay(dbData[Len(dbData)].date) ELSE period1Str

(* ------------------------- Market Data Gateway -------------------------- *)
NoCurrency == ""
\* chartResult.meta?.currency || 'USD' and quote.currency || 'USD'
OrUSD(c) == IF c = NoCurrency THEN "USD" ELSE c

\* One raw quote of a chart answer: every price field carries the close.
Quote(ts, c) ==
    [date |-> ts, open |-> c, high |-> c, low |-> c, close |-> c,
     volume |-> c, adjclose |-> c]

\* The quotes the provider can hold at instant `at` for a chart from day period1.
QuoteUniverse(period1, at) ==
    {Quote(ts, c) : ts \in {x \in 0..at : IsoDay(x) >= period1},
                    c \in CloseVals \cup {Null}}

RECURSIVE SeqsUpTo(_, _)
SeqsUpTo(S, n) ==
    IF n = 0 THEN {<<>>}
    ELSE LET shorter == SeqsUpTo(S, n - 1)
         IN  shorter \cup {Append(q, x) : q \in shorter, x \in S}

\* The answers chart(symbol, { period1 }) can resolve with.
\* A chart answer is a time series: its quotes ascend strictly by date.
ChartAnswers(period1, at) ==
    {q \in SeqsUpTo(QuoteUniverse(period1, at), MaxQuotes) :
        \A i \in 1..(Len(q) - 1) : q[i].date < q[i + 1].date}

\* Within a GET request the clock stands still: the provider has today's bar or
\* has nothing new.
TodayClose == 2
TodayAnswers(at) == {<<>>, <<Quote(at, TodayClose)>>}

(* ------------------------------- tasks ---------------------------------- *)
\* A task is one run of getAssetData (kind "asset", followed inside GET by the
\* quote call) or of getExchangeRateData (kind "rate").  Request 0 is the
\* sequential driver, which calls the helpers directly.
TaskId(req, kind, sym) == [req |-> req, kind |-> kind, sym |-> sym]
KeyOf(id) == IF id.kind = "asset" THEN AssetKey(id.sym) ELSE RateKey(id.sym)

NewTask(period1Str) ==
    [pc |-> "sync", period1Str |-> period1Str, synced |-> FALSE, dbData |-> <<>>,
     start |-> Null, validQuotes |-> <<>>, meta |-> NoCurrency, ret |-> <<>>,
     hit |-> FALSE, chartFailed |-> FALSE, currency |-> NoCurrency, error |-> FALSE,
     sync0 |-> Null, afterFail |-> FALSE, writeFailed |-> FALSE]

\* A returned call whose result the caller has taken.
Consumed == [NewTask(0) EXCEPT !.pc = "taken"]

Running == {id \in DOMAIN tasks : tasks[id].pc \notin {"done", "taken"}}

ChartJob(id) == [task |-> id, call |-> "chart"]
QuoteJob(id) == [task |-> id, call |-> "quote"]

NoCalls == [calls |-> 0, quotes |-> 0, ok |-> FALSE, afterOk |-> FALSE, failed |-> FALSE]

\* GET awaits yahooFinance.quote(ticker) as soon as getAssetData has returned;
\* the driver and getExchangeRateData's caller make no further call.
CallsQuote(id) == id.req # 0 /\ id.kind = "asset"
PcAfterReturn(id) == IF CallsQuote(id) THEN "quote" ELSE "done"
\* A helper whose caller never hands its quote call to the gateway queue.
QueueDropped(id) == queue
QueueAfterReturn(id) == IF CallsQuote(id) THEN Append(queue, QuoteJob(id)) ELSE queue

\* The helper has returned `ret`: its locals are gone, the caller holds the result.
Return(id, ret, hit, chartFailed) ==
    [NewTask(tasks[id].period1Str) EXCEPT !.ret = ret, !.hit = hit,
                                          !.sync0 = tasks[id].sync0,
                                          !.afterFail = tasks[id].afterFail,
                                          !.chartFailed = chartFailed,
                                          !.pc = PcAfterReturn(id)]

\* The stored rows of the task's symbol from its period1Date on, date ascending.
FindMany(id) ==
    IF id.kind = "asset"
    THEN FindManyAsset(assetPrice, id.sym, DateOf(tasks[id].period1Str))
    ELSE FindManyRate(exchangeRate, id.sym, DateOf(tasks[id].period1Str))

\* What the helper hands back for rows read from the store: getAssetData maps
\* them to bars, getExchangeRateData returns the rows as read.
Returned(id, rows) == IF id.kind = "asset" THEN MapBars(rows) ELSE rows

\* route.ts:16-20 / 136-139: findUnique on the sync key, then isSyncedToday.
ReadSync(id) ==
    /\ id \in DOMAIN tasks
    /\ tasks[id].pc = "sync"
    /\ tasks' = [tasks EXCEPT ![id].synced = isSyncedToday(syncRegistry[KeyOf(id)], now),
                              ![id].sync0 = syncRegistry[KeyOf(id)],
                              ![id].afterFail = gw[KeyOf(id)].failed,
                              ![id].pc = "db"]
    /\ UNCHANGED <<now, assetPrice, exchangeRate, syncRegistry, queue, inflight, ncalls, gw, requests, val>>

\* route.ts:23-67 / 142-163: findMany; a hit returns, a miss computes fetchStart
\* and hands the chart call to the gateway queue.
ReadDb(id) ==
    /\ id \in DOMAIN tasks
    /\ tasks[id].pc = "db"
    /\ LET dbData == FindMany(id)
       IN  IF CacheHit(dbData, tasks[id].synced)
           THEN /\ tasks' = [tasks EXCEPT ![id] = Return(id, Returned(id, dbData), TRUE, FALSE)]
                /\ queue' = QueueAfterReturn(id)
           ELSE /\ tasks' = [tasks EXCEPT ![id].dbData = dbData,
                                          ![id].start = fetchStart(dbData, tasks[id].period1Str),
                                          ![id].pc = "chart"]
                /\ queue' = Append(queue, ChartJob(id))
    /\ UNCHANGED <<now, assetPrice, exchangeRate, syncRegistry, inflight, ncalls, gw, requests, val>>

\* route.ts:5-9: the client's queue starts the oldest waiting call when fewer
\* than `concurrency` calls are being served.
SlotAlways(serving) == TRUE
SlotFree(serving) == Cardinality(serving) < concurrency

GatewayStart ==
    /\ queue # <<>>
    /\ SlotFree(inflight)
    /\ inflight' = inflight \cup {Head(queue)}
    /\ queue' = Tail(queue)
    /\ LET job == Head(queue)
           key == KeyOf(job.task)
       IN  gw' = IF job.call = "chart"
                 THEN [gw EXCEPT ![key].calls = @ + 1,
                                 ![key].afterOk = @ \/ gw[key].ok]
                 ELSE [gw EXCEPT ![key].quotes = @ + 1]
    /\ UNCHANGED <<now, assetPrice, exchangeRate, syncRegistry, tasks, ncalls, requests, val>>

\* if (validQuotes.length > 0) { ... createMany ... }; the upsert follows either way.
UpsertIfBars(valid) == IF Len(valid) > 0 THEN "insert" ELSE "reread"
AfterChart(valid) == IF Len(valid) > 0 THEN "insert" ELSE "upsert"

\* What the provider can answer to the task's chart call.
Answers(id) ==
    IF id.req = 0 THEN ChartAnswers(tasks[id].start, now) ELSE TodayAnswers(now)

\* route.ts:67-91 / 163-178: chart resolves; the valid quotes, when there are
\* any, go to createMany, otherwise the sync upsert is next.
ChartResolves(id, answers) ==
    /\ ChartJob(id) \in inflight
    /\ \E quotes \in answers, meta \in {NoCurrency, "USD"} :
          tasks' = [tasks EXCEPT ![id].validQuotes = validQuotes(quotes),
                                 ![id].meta = OrUSD(meta),
                                 ![id].pc = AfterChart(validQuotes(quotes))]
    /\ inflight' = inflight \ {ChartJob(id)}
    /\ gw' = [gw EXCEPT ![KeyOf(id)].ok = TRUE, ![KeyOf(id)].failed = FALSE]
    /\ UNCHANGED <<now, assetPrice, exchangeRate, syncRegistry, queue, ncalls, requests, val>>

ChartOk(id) == ChartResolves(id, Answers(id))

\* route.ts:116-128 / 193-196: chart rejects; the catch returns what was read.
ChartFail(id) ==
    /\ ChartJob(id) \in inflight
    /\ inflight' = inflight \ {ChartJob(id)}
    /\ tasks' = [tasks EXCEPT ![id] =
                    Return(id, IF Len(tasks[id].dbData) > 0
                               THEN Returned(id, tasks[id].dbData) ELSE <<>>, FALSE, TRUE)]
    /\ queue' = QueueAfterReturn(id)
    /\ gw' = [gw EXCEPT ![KeyOf(id)].failed = TRUE]
    /\ UNCHANGED <<now, assetPrice, exchangeRate, syncRegistry, ncalls, requests, val>>

\* dataToInsert of the task (route.ts:75-85 / 167-171).
dataToInsert(id) ==
    LET v == tasks[id].validQuotes
    IN  IF id.kind = "asset"
        THEN [i \in 1..Len(v) |-> AssetRow(id.sym, v[i], tasks[id].meta, now)]
        ELSE [i \in 1..Len(v) |-> RateRow(id.sym, v[i])]

\* route.ts:87-90 / 174-177: createMany with skipDuplicates.
Insert(id) ==
    /\ id \in DOMAIN tasks
    /\ tasks[id].pc = "insert"
    /\ IF id.kind = "asset"
       THEN /\ assetPrice' = CreateManyAsset(assetPrice, dataToInsert(id))
            /\ UNCHANGED exchangeRate
       ELSE /\ exchangeRate' = CreateManyRate(exchangeRate, dataToInsert(id))
            /\ UNCHANGED assetPrice
    /\ tasks' = [tasks EXCEPT ![id].pc = "upsert"]
    /\ UNCHANGED <<now, syncRegistry, queue, inflight, ncalls, gw, requests, val>>

\* route.ts:94-98 / 181-185: syncRegistry.upsert with lastCheck: new Date().
Upsert(id) ==
    /\ id \in DOMAIN tasks
    /\ tasks[id].pc = "upsert"
    /\ syncRegistry' = [syncRegistry EXCEPT ![KeyOf(id)] = now]
    /\ tasks' = [tasks EXCEPT ![id].pc = "reread"]
    /\ UNCHANGED <<now, assetPrice, exchangeRate, queue, inflight, ncalls, gw, requests, val>>

\* What the refresh returns after its writes: the rows read again (fullData),
\* not the rows read before the fetch.
RowsReadBefore(id) == Returned(id, tasks[id].dbData)
RowsReadAgain(id) == Returned(id, FindMany(id))

\* route.ts:101-114 / 188-191: the full stored range is read again and returned.
Reread(id) ==
    /\ id \in DOMAIN tasks
    /\ tasks[id].pc = "reread"
    /\ tasks' = [tasks EXCEPT ![id] = Return(id, RowsReadAgain(id), FALSE, FALSE)]
    /\ queue' = QueueAfterReturn(id)
    /\ UNCHANGED <<now, assetPrice, exchangeRate, syncRegistry, inflight, ncalls, gw, requests, val>>

(* ------------------------- administrative reset ------------------------- *)
\* admin/refresh/route.ts:6-27: one transaction deletes the AssetPrice rows with
\* updatedAt >= yesterday and the SyncRegistry rows with lastCheck >= yesterday.
AdminReset ==
    /\ Running = {}
    /\ LET yesterday == now - oneDay
       IN  /\ assetPrice' = {r \in assetPrice : ~(r.updatedAt >= yesterday)}
           /\ syncRegistry' = [k \in SyncKeys |->
                                 IF syncRegistry[k] # Null /\ syncRegistry[k] >= yesterday
                                 THEN Null ELSE syncRegistry[k]]
    /\ gw' = [k \in SyncKeys |-> NoCalls]
    /\ tasks' = [id \in DOMAIN tasks |-> Consumed]
    /\ UNCHANGED <<now, exchangeRate, queue, inflight, ncalls, requests, val>>

(* ------------------------ the sequential driver ------------------------- *)
\* The driver calls one helper after the other has returned, and stays with the
\* symbol of its first call: symbols share no row and no sync key.
\* The clock advances between calls; the day's call history starts again when
\* the local calendar day changes.
Tick ==
    /\ Running = {}
    /\ now < MaxNow
    /\ now' = now + 1
    /\ gw' = IF toDateString(now + 1) # toDateString(now)
             THEN [k \in SyncKeys |-> NoCalls] ELSE gw
    /\ tasks' = [id \in DOMAIN tasks |-> Consumed]
    /\ UNCHANGED <<assetPrice, exchangeRate, syncRegistry, queue, inflight, ncalls, requests, val>>

\* getAssetData(ticker, period1Str), called when the previous call has returned.
CallAsset ==
    /\ Running = {}
    /\ \A id \in DOMAIN tasks : id.kind = "asset"
    /\ ncalls < MaxCalls
    /\ \E t \in SeqTickers, period1Str \in Days :
          tasks' = (TaskId(0, "asset", t) :> NewTask(period1Str))
    /\ ncalls' = ncalls + 1
    /\ UNCHANGED <<now, assetPrice, exchangeRate, syncRegistry, queue, inflight, gw, requests, val>>

\* getExchangeRateData(pair, period1Str), called when the previous call has returned.
CallRate ==
    /\ Running = {}
    /\ \A id \in DOMAIN tasks : id.kind = "rate"
    /\ ncalls < MaxCalls
    /\ \E p \in Pairs, period1Str \in Days :
          tasks' = (TaskId(0, "rate", p) :> NewTask(period1Str))
    /\ ncalls' = ncalls + 1
    /\ UNCHANGED <<now, assetPrice, exchangeRate, syncRegistry, queue, inflight, gw, requests, val>>

Step ==
    \E id \in DOMAIN tasks :
        \/ ReadSync(id)
        \/ ReadDb(id)
        \/ ChartOk(id)
        \/ ChartFail(id)
        \/ Insert(id)
        \/ Upsert(id)
        \/ Reread(id)

Init ==
    /\ now = 0
    /\ assetPrice = {}
    /\ exchangeRate = {}
    /\ syncRegistry = [k \in SyncKeys |-> Null]
    /\ tasks = <<>>
    /\ queue = <<>>
    /\ inflight = {}
    /\ ncalls = 0
    /\ gw = [k \in SyncKeys |-> NoCalls]
    /\ requests = <<>>
    /\ val = <<>>

Next ==
    \/ CallAsset
    \/ CallRate
    \/ Step
    \/ GatewayStart
    \/ AdminReset
    \/ Tick

Spec == Init /\ [][Next]_vars

(* ---------------- refreshes against a provider with a history ---------- *)
\* The provider holds one daily bar for every day up to the day of `at`, and a
\* chart call from a start day answers with all of them from that day on.
MarketClose == 1
RECURSIVE BarsBetween(_, _)
BarsBetween(first, last) ==
    IF first > last THEN <<>>
    ELSE Append(BarsBetween(first, last - 1), Quote(DateOf(last), MarketClose))

FullAnswer(start, at) == BarsBetween(IF start < 0 THEN 0 ELSE start, IsoDay(at))

\* route.ts:67-91 / 163-178 with that provider; the gateway does not fail.
ChartFull(id) == ChartResolves(id, {FullAnswer(tasks[id].start, now)})

StepFull ==
    \E id \in DOMAIN tasks :
        \/ ReadSync(id)
        \/ ReadDb(id)
        \/ ChartFull(id)
        \/ Insert(id)
        \/ Upsert(id)
        \/ Reread(id)

NextHist ==
    \/ CallAsset
    \/ CallRate
    \/ StepFull
    \/ GatewayStart
    \/ Tick

SpecHist == Init /\ [][NextHist]_vars

(* --------------------------- valuation (GET) ---------------------------- *)
\* route.ts:306 and 383: the forward-fill loops look back 7 days.
lookback == 7
\* route.ts:314: pence sterling is a hundredth of a pound (rate * 0.01).
penceScale == 100
\* route.ts:238: with no transactions the series start five years back.
fiveYears == 5

Min(S) == CHOOSE x \in S : \A y \in S : x <= y
Max(S) == CHOOSE x \in S : \A y \in S : y <= x

\* Array.from(new Set(transactions.map(t => t.ticker))): first appearances.
RECURSIVE UniqueTickers(_)
UniqueTickers(txs) ==
    IF txs = <<>> THEN <<>>
    ELSE LET init == UniqueTickers(SubSeq(txs, 1, Len(txs) - 1))
             t == txs[Len(txs)].ticker
         IN  IF \E i \in 1..Len(init) : init[i] = t THEN init ELSE Append(init, t)

\* period1Str: the day of the earliest transaction, else five years back.
Period1Str(transactions, at) ==
    IF Len(transactions) > 0 THEN IsoDay(transactions[1].date)
    ELSE IsoDay(at) - fiveYears * 365

\* A Map keyed by date string, built by set() in array order: the last entry of
\* a day stays.  dateMap of the rates skips a rate of 0 (if (rate) ...).
RateDateMap(rates) ==
    LET idx == {i \in 1..Len(rates) : rates[i].rate # 0}
    IN  [d \in {IsoDay(rates[i].date) : i \in idx} |->
            rates[Max({i \in idx : IsoDay(rates[i].date) = d})].rate]

\* priceMap[ticker]: map.set(dateStr, d.close) for every bar.
PriceDateMap(data) ==
    [d \in {IsoDay(data[i].date) : i \in 1..Len(data)} |->
        data[Max({i \in 1..Len(data) : IsoDay(data[i].date) = d})].close]

\* A look-back without the limit of 7 days: the nearest earlier entry, however old.
NearestEarlier(map, day) ==
    LET back == {e \in DOMAIN map : e < day /\ map[e] # 0}
    IN  IF back = {} THEN 0 ELSE map[Max(back)]

\* The loop over the 7 previous days: the nearest one with a non-zero entry, 0
\* when there is none.
NearestPrior(map, day) ==
    LET back == {i \in 1..lookback : (day - i) \in DOMAIN map /\ map[day - i] # 0}
    IN  IF back = {} THEN 0 ELSE map[day - Min(back)]

\* map.get(dateStr) alone, without the look-back.
ResolveExact(map, day) == IF day \in DOMAIN map THEN map[day] ELSE 0

\* map.get(dateStr), then the look-back when that is missing or 0.
Resolve(map, day) ==
    IF day \in DOMAIN map /\ map[day] # 0 THEN map[day] ELSE NearestPrior(map, day)

\* res.currency === 'GBp' ? 'GBP' : res.currency
NormCurrency(c) == IF c = "GBp" THEN "GBP" ELSE c

\* route.ts:259-267: the currencies whose rates are fetched.
UniqueCurrencies(results, baseCurrency) ==
    {NormCurrency(results[i].currency) :
        i \in {j \in 1..Len(results) :
                 /\ ~results[j].error
                 /\ results[j].currency # NoCurrency
                 /\ NormCurrency(results[j].currency) # baseCurrency}}

\* route.ts:299-314: the multiplier of one bar, as the rate and the divisor.
RateFor(rateMap, normCurrency, baseCurrency, day) ==
    LET r == IF normCurrency # baseCurrency /\ normCurrency \in DOMAIN rateMap
             THEN Resolve(rateMap[normCurrency], day) ELSE 1
    IN  IF r = 0 THEN 1 ELSE r

\* A multiplier that ignores the pence quoting.
TimesRate(x, rate, isGBp) == x * rate

\* x * multiplier, multiplier = isGBp ? rate * 0.01 : rate
Times(x, rate, isGBp) == IF isGBp THEN (x * rate) \div penceScale ELSE x * rate

\* route.ts:297-324: one converted bar; adjClose and volume come along unchanged.
ConvertBar(day, rate, isGBp) ==
    [day EXCEPT !.close = Times(day.close, rate, isGBp),
                !.open = Times(day.open, rate, isGBp),
                !.high = Times(day.high, rate, isGBp),
                !.low = Times(day.low, rate, isGBp)]

\* route.ts:285-327: one entry of convertedResults.
ConvertResult(res, rateMap, baseCurrency) ==
    IF res.error THEN res
    ELSE LET isGBp == res.currency = "GBp"
             normCurrency == NormCurrency(res.currency)
         IN  IF normCurrency = baseCurrency /\ ~isGBp
             THEN [res EXCEPT !.currency = baseCurrency]
             ELSE [res EXCEPT !.currency = baseCurrency,
                              !.data = [i \in 1..Len(res.data) |->
                                  ConvertBar(res.data[i],
                                             RateFor(rateMap, normCurrency, baseCurrency,
                                                     IsoDay(res.data[i].date)),
                                             isGBp)]]

ConvertResults(results, rateMap, baseCurrency) ==
    [i \in 1..Len(results) |-> ConvertResult(results[i], rateMap, baseCurrency)]

\* priceMap: one date map per entry that carries data.
PriceMap(convertedResults) ==
    [t \in {convertedResults[i].ticker :
              i \in {j \in 1..Len(convertedResults) : ~convertedResults[j].error}} |->
        PriceDateMap(convertedResults[
            Max({j \in 1..Len(convertedResults) :
                   ~convertedResults[j].error /\ convertedResults[j].ticker = t})].data)]

\* The signed sum of a sequence of transactions.
RECURSIVE SignedSum(_)
SignedSum(txs) ==
    IF txs = <<>> THEN 0
    ELSE SignedSum(Tail(txs))
         + (IF Head(txs).type = "BUY" THEN Head(txs).quantity ELSE -Head(txs).quantity)

\* txByTicker[ticker]
TxOf(transactions, ticker) == SelectSeq(transactions, LAMBDA tx : tx.ticker = ticker)

\* route.ts:365-371: the quantity held at the instant d (midnight of the day).
HeldAt(transactions, ticker, d) ==
    SignedSum(SelectSeq(TxOf(transactions, ticker), LAMBDA tx : tx.date <= d))

\* route.ts:373-393: what a ticker adds to the day, 0 when it adds nothing.
DayValue(transactions, priceMap, ticker, day) ==
    LET quantity == HeldAt(transactions, ticker, DateOf(day))
        price == IF ticker \in DOMAIN priceMap THEN Resolve(priceMap[ticker], day) ELSE 0
    IN  IF quantity > 0 /\ price # 0 THEN quantity * price ELSE 0

\* Whether seriesItem[ticker] is set (route.ts:411-426).
HasPart(transactions, priceMap, ticker, day) ==
    /\ HeldAt(transactions, ticker, DateOf(day)) > 0
    /\ ticker \in DOMAIN priceMap
    /\ Resolve(priceMap[ticker], day) # 0

TickerSet(transactions) == {transactions[i].ticker : i \in 1..Len(transactions)}

RECURSIVE SumOver(_, _, _, _)
SumOver(S, transactions, priceMap, day) ==
    IF S = {} THEN 0
    ELSE LET t == CHOOSE x \in S : TRUE
         IN  DayValue(transactions, priceMap, t, day)
             + SumOver(S \ {t}, transactions, priceMap, day)

\* dailyTotal of one day.
DailyTotal(transactions, priceMap, day) ==
    SumOver(TickerSet(transactions), transactions, priceMap, day)

\* if (dailyTotal > 0 || portfolioSeries.length > 0)
IncludeIfPositive(dailyTotal, series) == dailyTotal > 0
IncludeDay(dailyTotal, series) == dailyTotal > 0 \/ Len(series) > 0

\* for (let d = startDate; d <= today; ...): the loop's condition.
BeforeToday(d, today) == d < today
UpToToday(d, today) == d <= today

\* route.ts:357-432: the loop from startDate to today, a day at a time.
RECURSIVE SeriesFrom(_, _, _, _, _)
SeriesFrom(d, today, transactions, priceMap, series) ==
    IF ~UpToToday(d, today) THEN series
    ELSE LET dateStr == IsoDay(d)
             dailyTotal == DailyTotal(transactions, priceMap, dateStr)
             seriesItem ==
                 [date |-> dateStr, value |-> dailyTotal,
                  parts |-> [t \in {x \in TickerSet(transactions) :
                                      HasPart(transactions, priceMap, x, dateStr)} |->
                               DayValue(transactions, priceMap, t, dateStr)]]
         IN  SeriesFrom(d + oneDay, today, transactions, priceMap,
                        IF IncludeDay(dailyTotal, series)
                        THEN Append(series, seriesItem) ELSE series)

\* route.ts:330-433: portfolioSeries.
PortfolioSeries(transactions, convertedResults, period1Str, today) ==
    IF Len(transactions) > 0
    THEN SeriesFrom(DateOf(period1Str), today, transactions,
                    PriceMap(convertedResults), <<>>)
    ELSE <<>>

\* route.ts:459-460: sort by date descending (a stable sort), take the first.
AssetClassOf(txs) ==
    LET latest == Max({txs[i].date : i \in 1..Len(txs)})
        first == txs[Min({i \in 1..Len(txs) : txs[i].date = latest})]
    IN  IF first.assetClass = "" THEN "Stocks" ELSE first.assetClass

\* The close of the first bar of the series.
FirstClose(data) == data[1].close

\* route.ts:455: res.data[res.data.length - 1].close
LastClose(data) == data[Len(data)].close

\* route.ts:445-468: one holding.
Holding(transactions, convertedResults, ticker) ==
    LET quantity == SignedSum(TxOf(transactions, ticker))
        found == {i \in 1..Len(convertedResults) : convertedResults[i].ticker = ticker}
        res == convertedResults[Min(found)]
        currentPrice == IF found # {} /\ ~res.error /\ Len(res.data) > 0
                        THEN LastClose(res.data) ELSE 0
    IN  [ticker |-> ticker, quantity |-> quantity, currentPrice |-> currentPrice,
         currentValue |-> quantity * currentPrice,
         assetClass |-> AssetClassOf(TxOf(transactions, ticker))]

\* route.ts:436-470: the holdings, tickers in order of first appearance.
Holdings(transactions, convertedResults) ==
    LET order == UniqueTickers(transactions)
        all == [i \in 1..Len(order) |-> Holding(transactions, convertedResults, order[i])]
    IN  SelectSeq(all, LAMBDA h : h.quantity > 0)

(* --------------------------- GET /api/portfolio ------------------------- *)
Reqs == {1, 2}
\* searchParams.get('currency') || 'EUR'
DefaultCurrency == "EUR"
\* The instant of the GET requests: the start of the day after the seeding.
GetNow == oneDay

\* transaction.findMany({ where: { portfolioId }, orderBy: { date: 'asc' } })
Ledger ==
    << [ticker |-> "AAA", type |-> "BUY", quantity |-> 1, date |-> 0, assetClass |-> "Stocks"],
       [ticker |-> "BBB", type |-> "BUY", quantity |-> 2, date |-> 1, assetClass |-> ""] >>

\* The query strings: request 1 values the portfolio (?portfolioId=...), request
\* 2 looks tickers up (?tickers=AAA or ?tickers=BBB).
GetParams(r) ==
    IF r = 1 THEN {[portfolio |-> TRUE, tickers |-> <<>>]}
    ELSE {[portfolio |-> FALSE, tickers |-> <<t>>] : t \in Tickers}

\* quote.currency as the provider reports it.
QuoteCurrencies == {NoCurrency, "EUR"}

NoResponse == [status |-> 0]
IdleRequest ==
    [pc |-> "idle", transactions |-> <<>>, tickers |-> <<>>, period1Str |-> 0,
     fetched |-> <<>>, results |-> <<>>, response |-> NoResponse]

AssetTasks(r) == {TaskId(r, "asset", requests[r].tickers[i]) : i \in 1..Len(requests[r].tickers)}
RateTasks(r) == {id \in DOMAIN tasks : id.req = r /\ id.kind = "rate"}

\* route.ts:246-251: quote resolves; the entry gets quote.currency || 'USD'.
QuoteOk(id) ==
    /\ QuoteJob(id) \in inflight
    /\ inflight' = inflight \ {QuoteJob(id)}
    /\ \E c \in QuoteCurrencies :
          tasks' = [tasks EXCEPT ![id].currency = OrUSD(c), ![id].pc = "done"]
    /\ UNCHANGED <<now, assetPrice, exchangeRate, syncRegistry, queue, ncalls, gw, requests, val>>

\* route.ts:252-255: quote rejects; the catch makes the entry { ticker, error }.
QuoteFail(id) ==
    /\ QuoteJob(id) \in inflight
    /\ inflight' = inflight \ {QuoteJob(id)}
    /\ tasks' = [tasks EXCEPT ![id].error = TRUE, ![id].pc = "done"]
    /\ UNCHANGED <<now, assetPrice, exchangeRate, syncRegistry, queue, ncalls, gw, requests, val>>

\* route.ts:244-255: try { ... } catch (e) { return { ticker, error } }: what the
\* ticker's promise settles with when its body threw or did not.
NoCatch(threw) == [rejected |-> threw, error |-> FALSE]
CatchTicker(threw) == [rejected |-> FALSE, error |-> threw]

\* route.ts:247-254: the ticker's entry of `results`.
Entry(id) ==
    IF CatchTicker(tasks[id].error).error
    THEN [ticker |-> id.sym, error |-> TRUE, currency |-> NoCurrency, data |-> <<>>]
    ELSE [ticker |-> id.sym, error |-> FALSE, currency |-> tasks[id].currency,
          data |-> tasks[id].ret]

\* `${currency}${baseCurrency}=X`
PairOf(currency, baseCurrency) == currency \o baseCurrency \o "=X"

\* route.ts:270-272: the pairs whose rates are fetched.
RatePairs(results, baseCurrency) ==
    {PairOf(c, baseCurrency) : c \in UniqueCurrencies(results, baseCurrency)}

\* route.ts:284-479: the payload, from the results and the rates.
Payload(transactions, results, rateMap, baseCurrency, period1Str, today) ==
    LET convertedResults == ConvertResults(results, rateMap, baseCurrency)
    IN  [status |-> 200,
         results |-> convertedResults,
         portfolioSeries |-> PortfolioSeries(transactions, convertedResults, period1Str, today),
         holdings |-> IF Len(transactions) > 0
                      THEN Holdings(transactions, convertedResults) ELSE <<>>]

\* route.ts:200-243: the ledger is read, the tickers and period1Str are fixed and
\* getAssetData starts for every ticker.
StartGet(r) ==
    /\ requests[r].pc = "idle"
    /\ \E p \in GetParams(r) :
          LET transactions == IF p.portfolio THEN Ledger ELSE <<>>
              tickers == IF p.portfolio THEN UniqueTickers(transactions) ELSE p.tickers
              period1Str == Period1Str(transactions, now)
          IN  /\ requests' = [requests EXCEPT ![r] =
                                [IdleRequest EXCEPT !.pc = "assets",
                                                    !.transactions = transactions,
                                                    !.tickers = tickers,
                                                    !.period1Str = period1Str]]
              /\ tasks' = [id \in DOMAIN tasks \cup
                                  {TaskId(r, "asset", tickers[i]) : i \in 1..Len(tickers)} |->
                             IF id \in DOMAIN tasks THEN tasks[id] ELSE NewTask(period1Str)]
    /\ UNCHANGED <<now, assetPrice, exchangeRate, syncRegistry, queue, inflight, ncalls, gw, val>>

\* route.ts:243-282: Promise.all over the tickers has settled; the currencies to
\* convert from are collected and getExchangeRateData starts for each.  With
\* none to fetch the payload follows at once; a rejected ticker promise ends in
\* the outer catch (status 500).
AwaitResults(r) ==
    /\ requests[r].pc = "assets"
    /\ \A id \in AssetTasks(r) : tasks[id].pc = "done"
    /\ LET req == requests[r]
           ids == [i \in 1..Len(req.tickers) |-> TaskId(r, "asset", req.tickers[i])]
           results == [i \in 1..Len(ids) |-> Entry(ids[i])]
           fetched == [i \in 1..Len(ids) |->
                         [ret |-> tasks[ids[i]].ret,
                          chartFailed |-> tasks[ids[i]].chartFailed,
                          quoteFailed |-> tasks[ids[i]].error,
                          writeFailed |-> tasks[ids[i]].writeFailed]]
           currencies == UniqueCurrencies(results, DefaultCurrency)
           rest == DOMAIN tasks \ AssetTasks(r)
           rateIds == {TaskId(r, "rate", PairOf(c, DefaultCurrency)) : c \in currencies}
       IN  IF \E i \in 1..Len(ids) : CatchTicker(tasks[ids[i]].error).rejected
           THEN /\ requests' = [requests EXCEPT ![r].pc = "done",
                                                ![r].fetched = fetched,
                                                ![r].response = [status |-> 500]]
                /\ tasks' = [id \in rest |-> tasks[id]]
           ELSE IF currencies = {}
           THEN /\ requests' = [requests EXCEPT
                                  ![r].pc = "done",
                                  ![r].fetched = fetched,
                                  ![r].results = results,
                                  ![r].response =
                                      Payload(req.transactions, results, <<>>, DefaultCurrency,
                                              req.period1Str, now)]
                /\ tasks' = [id \in rest |-> tasks[id]]
           ELSE /\ requests' = [requests EXCEPT ![r].pc = "rates",
                                                ![r].fetched = fetched,
                                                ![r].results = results]
                /\ tasks' = [id \in rest \cup rateIds |->
                               IF id \in rest THEN tasks[id] ELSE NewTask(req.period1Str)]
    /\ UNCHANGED <<now, assetPrice, exchangeRate, syncRegistry, queue, inflight, ncalls, gw, val>>

\* route.ts:270-479: the rates have arrived; rateMap is built and the payload
\* computed and returned.
Respond(r) ==
    /\ requests[r].pc = "rates"
    /\ \A id \in RateTasks(r) : tasks[id].pc = "done"
    /\ LET req == requests[r]
           currencies == UniqueCurrencies(req.results, DefaultCurrency)
           rateMap == [c \in currencies |->
                         RateDateMap(tasks[TaskId(r, "rate", PairOf(c, DefaultCurrency))].ret)]
       IN  requests' = [requests EXCEPT
                          ![r].pc = "done",
                          ![r].response =
                              Payload(req.transactions, req.results, rateMap, DefaultCurrency,
                                      req.period1Str, now)]
    /\ tasks' = [id \in DOMAIN tasks \ RateTasks(r) |-> tasks[id]]
    /\ UNCHANGED <<now, assetPrice, exchangeRate, syncRegistry, queue, inflight, ncalls, gw, val>>

\* A bar of AAA was stored and its sync entry written on the day before.
SeedRow == AssetRow("AAA", Quote(0, 1), "USD", 0)

InitGet ==
    /\ now = GetNow
    /\ assetPrice = {SeedRow}
    /\ exchangeRate = {}
    /\ syncRegistry = [k \in SyncKeys |-> IF k = AssetKey("AAA") THEN 0 ELSE Null]
    /\ tasks = <<>>
    /\ queue = <<>>
    /\ inflight = {}
    /\ ncalls = 0
    /\ gw = [k \in SyncKeys |-> NoCalls]
    /\ requests = [r \in Reqs |-> IdleRequest]
    /\ val = <<>>

Get == \E r \in DOMAIN requests : StartGet(r) \/ AwaitResults(r) \/ Respond(r)
QuoteStep == \E id \in DOMAIN tasks : QuoteOk(id) \/ QuoteFail(id)

NextGet ==
    \/ Get
    \/ Step
    \/ QuoteStep
    \/ GatewayStart

SpecGet == InitGet /\ [][NextGet]_vars

(* ----------------------- GET with failing store writes ----------------- *)
\* route.ts:87-90 / 174-177 inside the try of line 66 / 162: createMany throws,
\* nothing is written, and the catch returns the rows read before the fetch.
InsertFail(id) ==
    /\ id \in DOMAIN tasks
    /\ tasks[id].pc = "insert"
    /\ tasks' = [tasks EXCEPT ![id] =
                    [Return(id, IF Len(tasks[id].dbData) > 0
                                THEN Returned(id, tasks[id].dbData) ELSE <<>>, FALSE, FALSE)
                        EXCEPT !.writeFailed = TRUE]]
    /\ queue' = QueueAfterReturn(id)
    /\ UNCHANGED <<now, assetPrice, exchangeRate, syncRegistry, inflight, ncalls, gw,
                   requests, val>>

\* route.ts:94-98 / 181-185 inside the same try: the upsert throws after the
\* rows were written, and the catch returns the rows read before the fetch.
UpsertFail(id) ==
    /\ id \in DOMAIN tasks
    /\ tasks[id].pc = "upsert"
    /\ tasks' = [tasks EXCEPT ![id] =
                    [Return(id, IF Len(tasks[id].dbData) > 0
                                THEN Returned(id, tasks[id].dbData) ELSE <<>>, FALSE, FALSE)
                        EXCEPT !.writeFailed = TRUE]]
    /\ queue' = QueueAfterReturn(id)
    /\ UNCHANGED <<now, assetPrice, exchangeRate, syncRegistry, inflight, ncalls, gw,
                   requests, val>>

WriteFail == \E id \in DOMAIN tasks : InsertFail(id) \/ UpsertFail(id)

\* One request, the portfolio's valuation.
InitGetOne ==
    /\ now = GetNow
    /\ assetPrice = {SeedRow}
    /\ exchangeRate = {}
    /\ syncRegistry = [k \in SyncKeys |-> IF k = AssetKey("AAA") THEN 0 ELSE Null]
    /\ tasks = <<>>
    /\ queue = <<>>
    /\ inflight = {}
    /\ ncalls = 0
    /\ gw = [k \in SyncKeys |-> NoCalls]
    /\ requests = [r \in {1} |-> IdleRequest]
    /\ val = <<>>

NextGetFail ==
    \/ Get
    \/ Step
    \/ QuoteStep
    \/ GatewayStart
    \/ WriteFail

SpecGetFail == InitGetOne /\ [][NextGetFail]_vars

(* ------------------------ valuation of given inputs --------------------- *)
\* Sections 4 to 6 of GET as a function of what the earlier sections produced:
\* the ledger, the results of the fetches and today's instant.
MaxValDay == 3
MaxTx == 2
ValDays == 0..MaxValDay
\* Transactions are dated at midnight of a day, or within day 0.
ValInstants == {DateOf(d) : d \in ValDays} \cup {1}
\* Today's first instant is midnight of the day before the last: a transaction
\* of the last day is dated after today.
ValToday == DateOf(MaxValDay - 1)
\* The days the fetches can have returned bars for.
ValBarDays == 0..IsoDay(ValToday)

ValTx ==
    [ticker : Tickers, type : {"BUY", "SELL"}, quantity : {1}, date : ValInstants,
     assetClass : {""}]

\* orderBy: { date: 'asc' }
ValLedgers ==
    {l \in SeqsUpTo(ValTx, MaxTx) : \A i \in 1..(Len(l) - 1) : l[i].date <= l[i + 1].date}

ValBar(day, c) ==
    [date |-> DateOf(day), open |-> c, high |-> c, low |-> c, close |-> c,
     adjClose |-> c, volume |-> c]

\* One bar of close 1 on each day of S, date ascending.
RECURSIVE ValSeries(_)
ValSeries(S) ==
    IF S = {} THEN <<>> ELSE Append(ValSeries(S \ {Max(S)}), ValBar(Max(S), 1))

\* The series the fetches can have returned for a ticker.
ValData(ticker) ==
    IF ticker = "AAA" THEN {ValSeries(S) : S \in SUBSET ValBarDays}
    ELSE {<<>>, ValSeries(ValBarDays)}

ValInputs ==
    {[pc |-> "input", transactions |-> l, today |-> t,
      results |-> [i \in 1..Len(UniqueTickers(l)) |->
                     [ticker |-> UniqueTickers(l)[i], error |-> FALSE,
                      currency |-> DefaultCurrency,
                      data |-> IF UniqueTickers(l)[i] = "AAA" THEN a ELSE b]],
      response |-> NoResponse, today2 |-> t, response2 |-> NoResponse] :
        l \in ValLedgers \ {<<>>}, t \in {ValToday},
        a \in ValData("AAA"), b \in ValData("BBB")}

\* route.ts:284-479 applied to the inputs.
Compute ==
    /\ val.pc = "input"
    /\ val' = [val EXCEPT !.pc = "done",
                          !.response = Payload(val.transactions, val.results, <<>>,
                                               DefaultCurrency,
                                               Period1Str(val.transactions, val.today),
                                               val.today)]
    /\ UNCHANGED <<now, assetPrice, exchangeRate, syncRegistry, tasks, queue, inflight,
                   ncalls, gw, requests>>

InitVal ==
    /\ now = 0
    /\ assetPrice = {}
    /\ exchangeRate = {}
    /\ syncRegistry = [k \in SyncKeys |-> Null]
    /\ tasks = <<>>
    /\ queue = <<>>
    /\ inflight = {}
    /\ ncalls = 0
    /\ gw = [k \in SyncKeys |-> NoCalls]
    /\ requests = <<>>
    /\ val \in ValInputs

\* A second request with the same ledger and the same results of the fetches, at
\* a later instant of the same UTC day.
Recompute ==
    /\ val.pc = "done"
    /\ \E t \in (val.today + 1)..(val.today + oneDay - 1) :
          /\ IsoDay(t) = IsoDay(val.today)
          /\ val' = [val EXCEPT !.pc = "again",
                                !.today2 = t,
                                !.response2 = Payload(val.transactions, val.results, <<>>,
                                                      DefaultCurrency,
                                                      Period1Str(val.transactions, t), t)]
    /\ UNCHANGED <<now, assetPrice, exchangeRate, syncRegistry, tasks, queue, inflight,
                   ncalls, gw, requests>>

NextVal == Compute \/ Recompute

SpecVal == InitVal /\ [][NextVal]_vars

(* ========================== cache refresh claims ======================== *)
\* The stored rows of the task's symbol dated on or after its fromDate.
StoredFrom(id) ==
    IF id.kind = "asset"
    THEN {r \in assetPrice : r.ticker = id.sym /\ r.date >= tasks[id].period1Str * oneDay}
    ELSE {r \in exchangeRate : r.pair = id.sym /\ r.date >= tasks[id].period1Str * oneDay}

\* `ret` holds exactly the rows `rows`, one element each, date ascending.
RetExactly(id, ret, rows) ==
    /\ Len(ret) = Cardinality(rows)
    /\ \A r \in rows : \E i \in 1..Len(ret) :
          ret[i] = IF id.kind = "asset" THEN Bar(r) ELSE r
    /\ \A i \in 1..(Len(ret) - 1) : ret[i].date < ret[i + 1].date

\* C1 (as claimed): within one local calendar day and with no administrative
\* reset, no gateway chart call is started for a symbol once a gateway call for
\* it has succeeded that day.
C1_OneGatewayCallADay == \A k \in SyncKeys : ~gw[k].afterOk

\* C2: a refresh that finds the sync entry dated today (local calendar date) and
\* at least one stored bar on or after fromDate returns exactly those bars,
\* hands no call to the gateway and leaves the stores and the sync ledger as
\* they were.
C2_CacheHitFrame ==
    [][\A id \in DOMAIN tasks :
         (/\ tasks[id].pc = "db"
          /\ syncRegistry[KeyOf(id)] # Null
          /\ toDateString(syncRegistry[KeyOf(id)]) = toDateString(now)
          /\ StoredFrom(id) # {})
         => /\ tasks'[id].pc = "done"
            /\ tasks'[id].hit
            /\ RetExactly(id, tasks'[id].ret, StoredFrom(id))
            /\ UNCHANGED <<assetPrice, exchangeRate, syncRegistry, queue, inflight, gw>>]_vars

C2_Witness ==
    \E id \in DOMAIN tasks :
        tasks[id].pc = "done" /\ tasks[id].hit /\ Len(tasks[id].ret) > 0

\* The latest date among a non-empty set of rows.
LatestDate(rows) == CHOOSE d \in {r.date : r \in rows} : \A r \in rows : r.date <= d

\* C4: a refresh that is not a cache hit asks the gateway for bars from the day
\* of the latest stored bar on or after fromDate, and from fromDate when there is
\* no such bar.
C4_IncrementalStart ==
    \A id \in DOMAIN tasks :
        tasks[id].pc = "chart"
        => /\ ~tasks[id].hit
           /\ tasks[id].start =
                 IF StoredFrom(id) # {} THEN LatestDate(StoredFrom(id)) \div oneDay
                 ELSE tasks[id].period1Str
           /\ tasks[id].start >= tasks[id].period1Str

C4_Witness ==
    \E id \in DOMAIN tasks :
        /\ ChartJob(id) \in inflight
        /\ StoredFrom(id) # {}
        /\ tasks[id].start > tasks[id].period1Str

\* No two stored rows share (ticker, date), nor (pair, date).
UniqueRows ==
    /\ \A r1, r2 \in assetPrice :
          (r1.ticker = r2.ticker /\ r1.date = r2.date) => r1 = r2
    /\ \A r1, r2 \in exchangeRate :
          (r1.pair = r2.pair /\ r1.date = r2.date) => r1 = r2

\* C5: the price store holds at most one row per (ticker, date) and the rate
\* store at most one per (pair, date), and the insert of a refresh leaves every
\* row that was stored as it was.
C5_OneRowPerKey ==
    /\ []UniqueRows
    /\ [][(\E id \in DOMAIN tasks : tasks[id].pc = "insert")
            => (assetPrice \subseteq assetPrice' /\ exchangeRate \subseteq exchangeRate')]_vars

\* An insert has met a stored row of the same key and another close.
C5_Witness ==
    \E id \in DOMAIN tasks :
        /\ tasks[id].pc = "upsert"
        /\ \E i \in 1..Len(tasks[id].validQuotes) :
              \E r \in StoredFrom(id) :
                  /\ r.date = tasks[id].validQuotes[i].date
                  /\ (IF id.kind = "asset" THEN r.close ELSE r.rate)
                         # tasks[id].validQuotes[i].close

\* C6 (as claimed): a refresh whose gateway call failed returns the bars stored
\* for the range and leaves the sync entry as it was, and the next refresh of
\* the symbol that day calls the gateway again.
C6_FailureThenRetry ==
    \A id \in DOMAIN tasks :
        /\ (tasks[id].pc = "done" /\ tasks[id].chartFailed)
           => /\ RetExactly(id, tasks[id].ret, StoredFrom(id))
              /\ syncRegistry[KeyOf(id)] = tasks[id].sync0
        /\ (tasks[id].pc = "done" /\ tasks[id].afterFail) => ~tasks[id].hit


(* ============================ GET request claims ========================= *)
\* C7: at any moment at most one call to the provider is in flight, chart and
\* quote calls alike, whatever the interleaving of requests and fetches.
C7_OneInFlight == Cardinality(inflight) <= 1

\* A call is being served while calls of another request and ticker wait.
C7_Witness ==
    /\ Cardinality(inflight) = 1
    /\ Len(queue) >= 2
    /\ \E i, j \in 1..Len(queue) : queue[i].task.req # queue[j].task.req
    /\ \E i \in 1..Len(queue) : queue[i].call = "quote"
    /\ \E i \in 1..Len(queue) : queue[i].call = "chart"

\* C3: within one day the provider is called at most once per symbol over all
\* GET requests, chart calls and quote calls counted together.
C3_OncePerSymbolADay ==
    \A k \in SyncKeys : gw[k].calls + gw[k].quotes <= 1

\* Whether a provider call for the i-th ticker of request r failed.
ProviderFailed(r, i) ==
    requests[r].fetched[i].chartFailed \/ requests[r].fetched[i].quoteFailed

Dates(data) == [i \in 1..Len(data) |-> data[i].date]

\* C8: a provider failure for one ticker never fails the request; an entry
\* carries an error only if a provider call of its own ticker failed, and the
\* entry of every ticker without a failure carries the data its fetch returned.
C8_FailureIsolated ==
    \A r \in DOMAIN requests :
        requests[r].pc = "done" =>
            /\ requests[r].response.status = 200
            /\ Len(requests[r].response.results) = Len(requests[r].tickers)
            /\ \A i \in 1..Len(requests[r].tickers) :
                  LET e == requests[r].response.results[i]
                  IN  /\ e.ticker = requests[r].tickers[i]
                      /\ e.error => ProviderFailed(r, i)
                      /\ ~ProviderFailed(r, i)
                            => /\ ~e.error
                               /\ Dates(e.data) = Dates(requests[r].fetched[i].ret)

C8_Witness ==
    \E r \in DOMAIN requests :
        /\ requests[r].pc = "done"
        /\ requests[r].response.status = 200
        /\ \E i, j \in 1..Len(requests[r].tickers) :
              /\ requests[r].fetched[i].quoteFailed
              /\ requests[r].response.results[i].error
              /\ ~ProviderFailed(r, j)
              /\ Len(requests[r].response.results[j].data) > 0

\* C9: when a provider call for a ticker failed (chart or quote), the entry of
\* that ticker reports an error and still carries the cached bars its refresh
\* returned.
C9_FallbackAndError ==
    \A r \in DOMAIN requests :
        (requests[r].pc = "done" /\ requests[r].response.status = 200) =>
            \A i \in 1..Len(requests[r].tickers) :
                ProviderFailed(r, i) =>
                    /\ requests[r].response.results[i].error
                    /\ Dates(requests[r].response.results[i].data)
                           = Dates(requests[r].fetched[i].ret)

(* ============================ valuation claims =========================== *)
\* The days from the earliest transaction through today whose aggregate is positive.
PositiveDays ==
    {d \in Period1Str(val.transactions, val.today)..IsoDay(val.today) :
        DailyTotal(val.transactions, PriceMap(val.response.results), d) > 0}

\* C10: the value series holds exactly the days from the first day of positive
\* aggregate value through today, one point a day in ascending order, days of
\* value 0 after the first included; no point precedes the first positive day.
C10_SeriesDays ==
    val # <<>> /\ val.pc = "done" =>
        LET s == val.response.portfolioSeries
        IN  IF PositiveDays = {} THEN s = <<>>
            ELSE /\ Len(s) = IsoDay(val.today) - Min(PositiveDays) + 1
                 /\ \A i \in 1..Len(s) : s[i].date = Min(PositiveDays) + i - 1

C10_Witness ==
    /\ val # <<>>
    /\ val.pc = "done"
    /\ Len(val.response.portfolioSeries) > 1
    /\ val.response.portfolioSeries[1].date > Period1Str(val.transactions, val.today)
    /\ \E i \in 2..Len(val.response.portfolioSeries) :
          val.response.portfolioSeries[i].value = 0

\* The signed sum of the ticker's transactions dated on calendar day `day` or
\* before, at any time of day.
HeldOnDay(transactions, ticker, day) ==
    SignedSum(SelectSeq(TxOf(transactions, ticker), LAMBDA tx : IsoDay(tx.date) <= day))

\* The price the valuation resolves for the ticker on the day, 0 when none.
PriceOn(ticker, day) ==
    LET priceMap == PriceMap(val.response.results)
    IN  IF ticker \in DOMAIN priceMap THEN Resolve(priceMap[ticker], day) ELSE 0

\* C11 (as claimed): on every day d of the value series the quantity valued for a
\* ticker is the signed sum of its transactions dated on day d or before, at
\* whatever time of day: the ticker's sub-field is that quantity times the price.
C11_QuantityOfDay ==
    (val # <<>> /\ val.pc = "done") =>
        \A i \in 1..Len(val.response.portfolioSeries) :
            \A t \in TickerSet(val.transactions) :
                LET pt == val.response.portfolioSeries[i]
                    q == HeldOnDay(val.transactions, t, pt.date)
                IN  PriceOn(t, pt.date) # 0 =>
                        IF q > 0
                        THEN t \in DOMAIN pt.parts /\ pt.parts[t] = q * PriceOn(t, pt.date)
                        ELSE t \notin DOMAIN pt.parts

\* C12 (as claimed): the holdings are exactly the tickers whose signed sum of
\* transactions dated today or before is positive, each with that sum as its
\* quantity; transactions dated after today do not count.
C12_HoldingsToday ==
    (val # <<>> /\ val.pc = "done") =>
        LET h == val.response.holdings
            held == {t \in TickerSet(val.transactions) :
                       HeldOnDay(val.transactions, t, IsoDay(val.today)) > 0}
        IN  /\ {h[i].ticker : i \in 1..Len(h)} = held
            /\ \A i \in 1..Len(h) :
                  h[i].quantity = HeldOnDay(val.transactions, h[i].ticker, IsoDay(val.today))

\* C13 (as claimed): a point of the value series has a sub-field for every
\* ticker held in positive quantity that day, equal to the ticker's day value
\* (0 when no price resolves), and none for a ticker not held.
C13_SubFields ==
    (val # <<>> /\ val.pc = "done") =>
        \A i \in 1..Len(val.response.portfolioSeries) :
            \A t \in TickerSet(val.transactions) :
                LET pt == val.response.portfolioSeries[i]
                    q == HeldAt(val.transactions, t, DateOf(pt.date))
                IN  IF q > 0
                    THEN t \in DOMAIN pt.parts /\ pt.parts[t] = q * PriceOn(t, pt.date)
                    ELSE t \notin DOMAIN pt.parts

RowsOfKey(k, prices, rates) ==
    IF k[1] = "asset" THEN {r \in prices : r.ticker = k[2]}
    ELSE {r \in rates : r.pair = k[2]}

\* C14 (as claimed): the administrative reset, with T = now - one day, removes
\* every sync entry with lastCheck >= T together with the stored rows (price
\* bars and exchange-rate points) of the symbols checked since T.
C14_ResetPurges ==
    [][AdminReset =>
         \A k \in SyncKeys :
             (syncRegistry[k] # Null /\ syncRegistry[k] >= now - oneDay)
             => /\ syncRegistry'[k] = Null
                /\ RowsOfKey(k, assetPrice', exchangeRate') = {}]_vars

\* A refresh that has returned after a gateway call that succeeded.
Refreshed(id) == tasks[id].pc = "done" /\ ~tasks[id].hit /\ ~tasks[id].chartFailed

C18_SeriesComplete ==
    \A id \in DOMAIN tasks :
        (tasks[id].pc = "done" /\ syncRegistry[KeyOf(id)] # Null) =>
            \A d \in 0..IsoDay(syncRegistry[KeyOf(id)]) :
                d >= tasks[id].period1Str =>
                    \E i \in 1..Len(tasks[id].ret) : tasks[id].ret[i].date = DateOf(d)

\* C19 (as claimed): a failing store write during a refresh (the insert of the
\* bars or the upsert of the sync entry) makes the valuation request fail as a
\* whole: it does not answer with a successful payload.
C19_WriteFailureFails ==
    \A r \in DOMAIN requests :
        requests[r].pc = "done" =>
            \A i \in 1..Len(requests[r].tickers) :
                requests[r].fetched[i].writeFailed => requests[r].response.status # 200

(* ------------------- conversion with gaps in the rates ------------------ *)
MaxFxDay == 9
MaxRates == 2
FxUnits == 1
\* Closes are whole pounds when quoted in pence.
FxClose == FxUnits * penceScale
FxDays == 0..MaxFxDay
FxRateValues == {2, 3}
FxCurrencies == {"USD", "GBp"}
FxBases == {"EUR", "GBP"}

\* The stored rate points of a pair: at most MaxRates days, one row per day.
FxRateMaps ==
    UNION {[S -> FxRateValues] : S \in {T \in SUBSET FxDays : Cardinality(T) <= MaxRates}}

\* What getExchangeRateData returns for the pair: its rows, date ascending.
RECURSIVE FxRows(_, _, _)
FxRows(pair, f, S) ==
    IF S = {} THEN <<>>
    ELSE Append(FxRows(pair, f, S \ {Max(S)}),
                RateRow(pair, Quote(DateOf(Max(S)), f[Max(S)])))

RECURSIVE FxSeries(_)
FxSeries(S) ==
    IF S = {} THEN <<>> ELSE Append(FxSeries(S \ {Max(S)}), ValBar(Max(S), FxClose))

\* One ticker quoted in a foreign currency, bought on day 0, with a bar on every
\* day, and the rate points of its pair.
\* A pair is fetched, and has rows, only when the currency differs from the base.
FxCases ==
    {x \in [base : FxBases, currency : FxCurrencies, rates : FxRateMaps] :
        NormCurrency(x.currency) = x.base => DOMAIN x.rates = {}}

FxInputs ==
    {[pc |-> "input",
      transactions |-> <<[ticker |-> "AAA", date |-> 0, type |-> "BUY", quantity |-> 1,
                          assetClass |-> ""]>>,
      today |-> DateOf(MaxFxDay),
      base |-> x.base,
      results |-> <<[ticker |-> "AAA", error |-> FALSE, currency |-> x.currency,
                     data |-> FxSeries(FxDays)]>>,
      rates |-> FxRows(PairOf(NormCurrency(x.currency), x.base), x.rates, DOMAIN x.rates),
      pairs |-> {},
      response |-> NoResponse] : x \in FxCases}

InitFx ==
    /\ now = 0
    /\ assetPrice = {}
    /\ exchangeRate = {}
    /\ syncRegistry = [k \in SyncKeys |-> Null]
    /\ tasks = <<>>
    /\ queue = <<>>
    /\ inflight = {}
    /\ ncalls = 0
    /\ gw = [k \in SyncKeys |-> NoCalls]
    /\ requests = <<>>
    /\ val \in FxInputs

\* route.ts:269-479 applied to the results of the fetches and the rate rows.
Convert ==
    /\ val.pc = "input"
    /\ LET rateMap == [c \in UniqueCurrencies(val.results, val.base) |->
                          RateDateMap(val.rates)]
       IN  val' = [val EXCEPT !.pc = "converted",
                              !.pairs = RatePairs(val.results, val.base),
                              !.response = Payload(val.transactions, val.results, rateMap,
                                                   val.base,
                                                   Period1Str(val.transactions, val.today),
                                                   val.today)]
    /\ UNCHANGED <<now, assetPrice, exchangeRate, syncRegistry, tasks, queue, inflight,
                   ncalls, gw, requests>>

NextFx == Convert

SpecFx == InitFx /\ [][NextFx]_vars

\* The days that have a stored rate, and the rate stored for one of them.
RateDays(rates) == {IsoDay(rates[j].date) : j \in 1..Len(rates)}
RateOn(rates, e) == rates[CHOOSE j \in 1..Len(rates) : IsoDay(rates[j].date) = e].rate

\* The rate claimed for a bar of day d: the one stored for d, else the one of the
\* nearest earlier day among d-1 .. d-7, else 1.
ClaimedRate(rates, d) ==
    LET near == {e \in RateDays(rates) : d - lookback <= e /\ e <= d}
    IN  IF near = {} THEN 1 ELSE RateOn(rates, Max(near))

\* C20: every converted bar of day d is multiplied by the rate stored for d, else
\* by the rate of the nearest earlier day within d-1 .. d-7, else by 1; a rate 8
\* or more days old is never used, a pair without any rate gives multiplier 1 for
\* every bar, and the request answers successfully.
C20_FxMultiplier ==
    (val # <<>> /\ val.pc = "converted") =>
        /\ val.response.status = 200
        /\ Len(val.response.results[1].data) = Len(val.results[1].data)
        /\ \A i \in 1..Len(val.results[1].data) :
              val.response.results[1].data[i].close =
                  Times(val.results[1].data[i].close,
                        ClaimedRate(val.rates, IsoDay(val.results[1].data[i].date)),
                        val.results[1].currency = "GBp")

\* A converted series with one rate point on day 0: the bar of day 7 takes that
\* rate by the look-back and the bar of day 8 is left at multiplier 1.
C20_Witness ==
    /\ val # <<>>
    /\ val.pc = "converted"
    /\ val.results[1].currency = "USD"
    /\ val.base = "EUR"
    /\ RateDays(val.rates) = {0}
    /\ val.response.results[1].data[lookback + 1].close = FxClose * RateOn(val.rates, 0)
    /\ val.response.results[1].data[lookback + 2].close = FxClose

\* The rate the code resolved for bar i of the converted ticker.
FxRateOfBar(i) ==
    RateFor([c \in UniqueCurrencies(val.results, val.base) |-> RateDateMap(val.rates)],
            NormCurrency(val.results[1].currency), val.base,
            IsoDay(val.results[1].data[i].date))

\* C21 (as claimed): the resolved multiplier is applied to open, high, low, close
\* and adjClose of every converted bar, and volume is left unchanged.
C21_AllPricesConverted ==
    (val # <<>> /\ val.pc = "converted") =>
        \A i \in 1..Len(val.results[1].data) :
            LET day == val.results[1].data[i]
                out == val.response.results[1].data[i]
                isGBp == val.results[1].currency = "GBp"
            IN  /\ out.open = Times(day.open, FxRateOfBar(i), isGBp)
                /\ out.high = Times(day.high, FxRateOfBar(i), isGBp)
                /\ out.low = Times(day.low, FxRateOfBar(i), isGBp)
                /\ out.close = Times(day.close, FxRateOfBar(i), isGBp)
                /\ out.adjClose = Times(day.adjClose, FxRateOfBar(i), isGBp)
                /\ out.volume = day.volume

\* C22: a series quoted in pence (GBp) is multiplied by rate x 0.01, rate being
\* the GBP-to-target rate resolved for the bar; with target GBP it is still
\* divided by 100 and no exchange-rate pair is fetched for it.
C22_PenceSterling ==
    (val # <<>> /\ val.pc = "converted" /\ val.results[1].currency = "GBp") =>
        /\ val.pairs = IF val.base = "GBP" THEN {} ELSE {PairOf("GBP", val.base)}
        /\ \A i \in 1..Len(val.results[1].data) :
              val.response.results[1].data[i].close * penceScale =
                  val.results[1].data[i].close *
                      (IF val.base = "GBP" THEN 1
                       ELSE ClaimedRate(val.rates, IsoDay(val.results[1].data[i].date)))

\* A pence series valued in GBP: divided by 100, and no pair fetched.
C22_Witness ==
    /\ val # <<>>
    /\ val.pc = "converted"
    /\ val.results[1].currency = "GBp"
    /\ val.base = "GBP"
    /\ val.pairs = {}
    /\ val.response.results[1].data[1].close = FxUnits
    /\ val.response.results[1].currency = "GBP"

(* -------------------- valuation with gaps in the prices ----------------- *)
\* The bars of a ticker: one bar on each day of S with the close f gives it.
RECURSIVE PxSeries(_, _)
PxSeries(f, S) ==
    IF S = {} THEN <<>> ELSE Append(PxSeries(f, S \ {Max(S)}), ValBar(Max(S), f[Max(S)]))

\* One ticker quoted in the reporting currency, two units bought on day 0, with
\* bars on at most MaxRates days.
PxInputs ==
    {[pc |-> "input",
      transactions |-> <<[ticker |-> "AAA", date |-> 0, type |-> "BUY", quantity |-> 2,
                          assetClass |-> ""]>>,
      today |-> DateOf(MaxFxDay),
      base |-> DefaultCurrency,
      results |-> <<[ticker |-> "AAA", error |-> FALSE, currency |-> DefaultCurrency,
                     data |-> PxSeries(f, DOMAIN f)]>>,
      rates |-> <<>>,
      pairs |-> {},
      response |-> NoResponse] : f \in FxRateMaps}

InitPx ==
    /\ now = 0
    /\ assetPrice = {}
    /\ exchangeRate = {}
    /\ syncRegistry = [k \in SyncKeys |-> Null]
    /\ tasks = <<>>
    /\ queue = <<>>
    /\ inflight = {}
    /\ ncalls = 0
    /\ gw = [k \in SyncKeys |-> NoCalls]
    /\ requests = <<>>
    /\ val \in PxInputs

SpecPx == InitPx /\ [][NextFx]_vars

\* The days that have a bar, and the close of the bar of one of them.
BarDays(data) == {IsoDay(data[j].date) : j \in 1..Len(data)}
CloseOn(data, e) == data[CHOOSE j \in 1..Len(data) : IsoDay(data[j].date) = e].close

\* The price claimed for day d: the close stored for d, else the close of the
\* nearest earlier day among d-1 .. d-7, else 0.
ClaimedPrice(data, d) ==
    LET near == {e \in BarDays(data) : d - lookback <= e /\ e <= d}
    IN  IF near = {} THEN 0 ELSE CloseOn(data, Max(near))

\* C23: for a held ticker the price of day d is the close stored for d, else the
\* close of the nearest earlier day within d-1 .. d-7, else the ticker adds 0; a
\* close 8 or more days old is never used.
C23_PriceLookback ==
    (val # <<>> /\ val.pc = "converted") =>
        \A i \in 1..Len(val.response.portfolioSeries) :
            LET item == val.response.portfolioSeries[i]
                quantity == HeldOnDay(val.transactions, "AAA", item.date)
            IN  /\ quantity > 0
                /\ item.value = quantity * ClaimedPrice(val.results[1].data, item.date)

\* One bar on day 0 only: the point of day 7 is valued at that close by the
\* look-back and the point of day 8 is valued 0.
C23_Witness ==
    /\ val # <<>>
    /\ val.pc = "converted"
    /\ BarDays(val.results[1].data) = {0}
    /\ Len(val.response.portfolioSeries) = MaxFxDay + 1
    /\ val.response.portfolioSeries[lookback + 1].date = lookback
    /\ val.response.portfolioSeries[lookback + 1].value
          = 2 * CloseOn(val.results[1].data, 0)
    /\ val.response.portfolioSeries[lookback + 2].value = 0

\* The sum, over the tickers of S held in positive quantity on the day, of
\* quantity x resolved price.
RECURSIVE HeldValue(_, _)
HeldValue(S, day) ==
    IF S = {} THEN 0
    ELSE LET t == CHOOSE x \in S : TRUE
             q == HeldOnDay(val.transactions, t, day)
         IN  (IF q > 0 THEN q * PriceOn(t, day) ELSE 0) + HeldValue(S \ {t}, day)

\* C24 (as claimed): the value of every point of the value series is the sum,
\* over the tickers held in strictly positive quantity on that day, of quantity
\* x resolved price; a ticker with zero or negative quantity adds nothing.
C24_ValueIsSum ==
    (val # <<>> /\ val.pc = "done") =>
        /\ val.response.status = 200
        /\ \A i \in 1..Len(val.response.portfolioSeries) :
              val.response.portfolioSeries[i].value =
                  HeldValue(TickerSet(val.transactions), val.response.portfolioSeries[i].date)

\* The normalized series of a ticker in the response.
SeriesOf(ticker) ==
    val.response.results[CHOOSE i \in 1..Len(val.response.results) :
                             val.response.results[i].ticker = ticker].data

\* C25: the currentPrice of every holding is the close of the latest-dated bar of
\* the ticker's normalized series, and its currentValue is quantity x
\* currentPrice.
C25_CurrentPrice ==
    (val # <<>> /\ val.pc = "converted") =>
        \A i \in 1..Len(val.response.holdings) :
            LET h == val.response.holdings[i]
                data == SeriesOf(h.ticker)
            IN  /\ data # <<>> =>
                      h.currentPrice = CloseOn(data, Max(BarDays(data)))
                /\ h.currentValue = h.quantity * h.currentPrice

\* A holding whose series has two bars with different closes: the later bar
\* gives the price, and the value is twice that.
C25_Witness ==
    /\ val # <<>>
    /\ val.pc = "converted"
    /\ Len(val.response.holdings) = 1
    /\ Len(SeriesOf("AAA")) = 2
    /\ SeriesOf("AAA")[1].close # SeriesOf("AAA")[2].close
    /\ val.response.holdings[1].currentPrice = SeriesOf("AAA")[2].close
    /\ val.response.holdings[1].currentValue = 2 * SeriesOf("AAA")[2].close

(* ------------------------ asset class of a holding ---------------------- *)
MaxClsTx == 2
AssetClasses == {"", "Stocks", "Etf"}

ClsTx ==
    [ticker : {"AAA"}, type : {"BUY", "SELL"}, quantity : {1}, date : ValInstants,
     assetClass : AssetClasses]

\* The ledgers as findMany returns them (orderBy date asc): transactions of the
\* same instant come in the order the store gives them.
ClsLedgers ==
    {l \in SeqsUpTo(ClsTx, MaxClsTx) : \A i \in 1..(Len(l) - 1) : l[i].date <= l[i + 1].date}

ClsInputs ==
    {[pc |-> "input", transactions |-> l, today |-> ValToday,
      results |-> <<[ticker |-> "AAA", error |-> FALSE, currency |-> DefaultCurrency,
                     data |-> ValSeries(ValBarDays)]>>,
      response |-> NoResponse] : l \in ClsLedgers \ {<<>>}}

InitCls ==
    /\ now = 0
    /\ assetPrice = {}
    /\ exchangeRate = {}
    /\ syncRegistry = [k \in SyncKeys |-> Null]
    /\ tasks = <<>>
    /\ queue = <<>>
    /\ inflight = {}
    /\ ncalls = 0
    /\ gw = [k \in SyncKeys |-> NoCalls]
    /\ requests = <<>>
    /\ val \in ClsInputs

NextCls == Compute

SpecCls == InitCls /\ [][NextCls]_vars

\* The class claimed for a ticker: that of the last transaction, in ledger
\* order, among those with the ticker's latest date ('Stocks' when it has none).
ClaimedClass(txs) ==
    LET latest == Max({txs[i].date : i \in 1..Len(txs)})
        last == txs[Max({i \in 1..Len(txs) : txs[i].date = latest})]
    IN  IF last.assetClass = "" THEN "Stocks" ELSE last.assetClass

\* C26 (as claimed): a holding's assetClass is the class of the ticker's
\* transaction with the latest date; among several transactions with that date
\* the one latest in the ledger order decides.
C26_LatestClass ==
    (val # <<>> /\ val.pc = "done") =>
        \A i \in 1..Len(val.response.holdings) :
            val.response.holdings[i].assetClass
                = ClaimedClass(TxOf(val.transactions, val.response.holdings[i].ticker))

\* The refresh of the task has written its bars (createMany is behind it).
Inserted(id) == tasks[id].pc \in {"upsert", "reread"}
\* The call has returned from a refresh: no cache hit, no failed gateway call.
ReturnedRefresh(id) ==
    tasks[id].pc \in {"quote", "done"} /\ ~tasks[id].hit /\ ~tasks[id].chartFailed

EqNow == DateOf(MaxDay) + 1
EqAsset == TaskId(0, "asset", "AAA")
EqRate == TaskId(0, "rate", "USDEUR=X")

\* What the store holds of the symbol before the calls: some of these quotes.
EqStored == SUBSET {Quote(DateOf(d), 1) : d \in Days}

\* The provider's answer to chart(symbol, { period1 }): of the quotes it holds,
\* those from period1 on.
ProviderAnswer(quotes, period1) == SelectSeq(quotes, LAMBDA q : IsoDay(q.date) >= period1)

\* getAssetData('AAA', d) and getExchangeRateData('USDEUR=X', d) are called with
\* the same rows stored, the same sync entry and the same provider.
InitEq ==
    /\ now = EqNow
    /\ \E S \in EqStored :
          /\ assetPrice = {AssetRow("AAA", q, "USD", 0) : q \in S}
          /\ exchangeRate = {RateRow("USDEUR=X", q) : q \in S}
    /\ \E lastCheck \in {Null} \cup 0..EqNow :
          syncRegistry = [k \in SyncKeys |->
                            IF k \in {KeyOf(EqAsset), KeyOf(EqRate)} THEN lastCheck ELSE Null]
    /\ \E period1Str \in Days :
          tasks = [id \in {EqAsset, EqRate} |-> NewTask(period1Str)]
    /\ queue = <<>>
    /\ inflight = {}
    /\ ncalls = 0
    /\ gw = [k \in SyncKeys |-> NoCalls]
    /\ requests = <<>>
    /\ val \in [quotes : ChartAnswers(0, EqNow), fails : BOOLEAN]

ChartGiven(id) ==
    /\ ~val.fails
    /\ ChartResolves(id, {ProviderAnswer(val.quotes, tasks[id].start)})

ChartFailGiven(id) ==
    /\ val.fails
    /\ ChartFail(id)

StepEq ==
    \E id \in DOMAIN tasks :
        \/ ReadSync(id)
        \/ ReadDb(id)
        \/ ChartGiven(id)
        \/ ChartFailGiven(id)
        \/ Insert(id)
        \/ Upsert(id)
        \/ Reread(id)

NextEq ==
    \/ StepEq
    \/ GatewayStart

SpecEq == InitEq /\ [][NextEq]_vars

\* The price rows and the rate rows correspond: same dates, rate = close.
RowsCorrespond ==
    {<<r.date, r.close>> : r \in {x \in assetPrice : x.ticker = "AAA"}}
        = {<<r.date, r.rate>> : r \in {x \in exchangeRate : x.pair = "USDEUR=X"}}

Decided(id) == tasks[id].pc \notin {"sync", "db"}
Fetching(id) == tasks[id].pc \in {"chart", "insert", "upsert", "reread"}

LiveReqs == {2, 3}

\* Two concurrent ticker lookups (?tickers=AAA or ?tickers=BBB each).
InitGetLive ==
    /\ now = GetNow
    /\ assetPrice = {SeedRow}
    /\ exchangeRate = {}
    /\ syncRegistry = [k \in SyncKeys |-> IF k = AssetKey("AAA") THEN 0 ELSE Null]
    /\ tasks = <<>>
    /\ queue = <<>>
    /\ inflight = {}
    /\ ncalls = 0
    /\ gw = [k \in SyncKeys |-> NoCalls]
    /\ requests = [r \in LiveReqs |-> IdleRequest]
    /\ val = <<>>

\* The event loop runs every continuation that is ready, every gateway call in
\* service resolves or rejects, and the gateway queue starts its oldest waiting
\* call when the slot is free.
SpecGetLive ==
    /\ InitGetLive
    /\ [][NextGet]_vars
    /\ WF_vars(Get)
    /\ WF_vars(Step)
    /\ WF_vars(QuoteStep)
    /\ WF_vars(GatewayStart)

\* C29: every valuation request that was received eventually returns a
\* response, whatever the other request and the tickers waiting on the single
\* gateway slot.
C29_EventuallyResponds ==
    \A r \in LiveReqs : (requests[r].pc # "idle") ~> (requests[r].pc = "done")

\* Both lookups have answered after the gateway served, one after the other, the
\* chart calls and the quote calls the two of them made for the same ticker.
C29_Witness ==
    /\ \A r \in LiveReqs : requests[r].pc = "done" /\ requests[r].response.status = 200
    /\ gw[AssetKey("AAA")].quotes = 2
    /\ gw[AssetKey("AAA")].calls = 2

(* ---------------------- POST /api/transactions/bulk --------------------- *)
MaxBatch == 2
BulkPortfolio == "P1"

\* The `transactions` array of the body: per element a date or none, and
\* whether transaction.create accepts it (`valid`) or throws.
BulkBatches ==
    SeqsUpTo([ticker : {"AAA"}, date : {Null, oneDay}, valid : BOOLEAN], MaxBatch)

\* bulk/route.ts:28-48: the row created for element t; without a date it takes
\* the date of the earliest stored price of the ticker, else the current time.
BulkRow(t, prices, at) ==
    LET stored == {r.date : r \in {x \in prices : x.ticker = t.ticker}}
    IN  [portfolioId |-> BulkPortfolio, ticker |-> t.ticker, type |-> "BUY", quantity |-> 1,
         date |-> IF t.date # Null THEN t.date
                  ELSE IF stored # {} THEN Min(stored) ELSE at,
         assetClass |-> ""]

\* The request and the store before it: the portfolio exists or not, the
\* ledger is empty or has a transaction, the body carries an array or not.
BulkInputs ==
    [pc : {"idle"}, isArray : BOOLEAN, batch : BulkBatches,
     portfolios : SUBSET {BulkPortfolio},
     transactions : {<<>>, <<BulkRow([ticker |-> "AAA", date |-> 0], {}, 0)>>},
     before : {<<>>}, created : {<<>>}, response : {NoResponse}]

InitBulk ==
    /\ now = GetNow
    /\ assetPrice \in {{}, {SeedRow}}
    /\ exchangeRate = {}
    /\ syncRegistry = [k \in SyncKeys |-> Null]
    /\ tasks = <<>>
    /\ queue = <<>>
    /\ inflight = {}
    /\ ncalls = 0
    /\ gw = [k \in SyncKeys |-> NoCalls]
    /\ requests = <<>>
    /\ val \in BulkInputs

BulkFrame ==
    UNCHANGED <<now, assetPrice, exchangeRate, syncRegistry, tasks, queue, inflight,
                ncalls, gw, requests>>

\* bulk/route.ts:9-11: no transactions array in the body.
BulkReject ==
    /\ val.pc = "idle"
    /\ ~val.isArray
    /\ val' = [val EXCEPT !.pc = "done",
                          !.before = [portfolios |-> val.portfolios,
                                      transactions |-> val.transactions],
                          !.response = [status |-> 400]]
    /\ BulkFrame

\* bulk/route.ts:14-21: portfolio.upsert, before the transaction opens.
BulkUpsertPortfolio ==
    /\ val.pc = "idle"
    /\ val.isArray
    /\ val' = [val EXCEPT !.pc = "tx",
                          !.before = [portfolios |-> val.portfolios,
                                      transactions |-> val.transactions],
                          !.portfolios = @ \cup {BulkPortfolio}]
    /\ BulkFrame

\* bulk/route.ts:26-51: the next element is created inside the transaction.
BulkCreate ==
    /\ val.pc = "tx"
    /\ Len(val.created) < Len(val.batch)
    /\ val.batch[Len(val.created) + 1].valid
    /\ val' = [val EXCEPT !.created =
                  Append(@, BulkRow(val.batch[Len(val.created) + 1], assetPrice, now))]
    /\ BulkFrame

\* bulk/route.ts:40-49, 56-58: create throws; the transaction rolls back and
\* the catch answers 500.
BulkCreateFail ==
    /\ val.pc = "tx"
    /\ Len(val.created) < Len(val.batch)
    /\ ~val.batch[Len(val.created) + 1].valid
    /\ val' = [val EXCEPT !.pc = "done", !.created = <<>>,
                          !.response = [status |-> 500]]
    /\ BulkFrame

\* bulk/route.ts:52-55: the callback returns count, the transaction commits.
BulkCommit ==
    /\ val.pc = "tx"
    /\ Len(val.created) = Len(val.batch)
    /\ val' = [val EXCEPT !.pc = "done",
                          !.transactions = @ \o val.created,
                          !.response = [status |-> 200, count |-> Len(val.created)]]
    /\ BulkFrame

NextBulk ==
    \/ BulkReject
    \/ BulkUpsertPortfolio
    \/ BulkCreate
    \/ BulkCreateFail
    \/ BulkCommit

SpecBulk == InitBulk /\ [][NextBulk]_vars

\* C30 (as claimed): the bulk import is all-or-nothing: when the creation of an
\* element fails, the request reports an error and the stored state is as it
\* was before the request; when all succeed, one transaction per element is
\* stored and the returned count is the batch size.
C30_AllOrNothing ==
    (val # <<>> /\ val.pc = "done" /\ val.isArray) =>
        IF \E i \in 1..Len(val.batch) : ~val.batch[i].valid
        THEN /\ val.response.status # 200
             /\ val.transactions = val.before.transactions
             /\ val.portfolios = val.before.portfolios
        ELSE /\ val.response.status = 200
             /\ val.response.count = Len(val.batch)
             /\ Len(val.transactions) = Len(val.before.transactions) + Len(val.batch)
             /\ \A i \in 1..Len(val.before.transactions) :
                   val.transactions[i] = val.before.transactions[i]
             /\ \A i \in 1..Len(val.batch) :
                   val.transactions[Len(val.before.transactions) + i].ticker
                       = val.batch[i].ticker
====
